---- MODULE Spec2Model ----
(***************************************************************************)
(* Neutral trajectories (neutralocean/traj.py): the bottle-to-cast         *)
(* connector _ntp_bottle_to_cast / ntp_bottle_to_cast and the driver       *)
(* neutral_trajectory.                                                     *)
(*                                                                         *)
(* Numbers.  Floats are modelled on an exact grid: pressures are even      *)
(* integers, cast samples of salinity and temperature are even integers,   *)
(* so that (pB + p) * 0.5 and linear interpolation at grid pressures are   *)
(* exact.  NaN is one distinguished value that every arithmetic operation  *)
(* propagates and every comparison answers FALSE on, as IEEE does.         *)
(* Arrays are functions on 0..n-1, as in the source.                       *)
(***************************************************************************)
EXTENDS Integers, Sequences, FiniteSets

\* ------------------------------------------------------------ bounds
\* Samples per cast (nk), casts per section (nc), and the value ranges the
\* inputs are drawn from.
NK == 3
MaxCasts == 5
MaxTop == 2

\* ------------------------------------------------------------ floats
NaN == -9999

isnan(x) == x = NaN
isfinite(x) == x # NaN

Sub(x, y) == IF isnan(x) \/ isnan(y) THEN NaN ELSE x - y
\* x > 0.0: FALSE on NaN
Pos(x) == isfinite(x) /\ x > 0
Min(x, y) == IF x < y THEN x ELSE y
Max(x, y) == IF x > y THEN x ELSE y
Abs(x) == IF x < 0 THEN -x ELSE x
Len0(A) == Cardinality(DOMAIN A)

\* ------------------------------------------------------------ collaborators
\* lib.find_first_nan: index of the first NaN of a, or len(a) when none.
find_first_nan(a) ==
    IF \E k \in DOMAIN a : isnan(a[k])
    THEN CHOOSE k \in DOMAIN a : isnan(a[k]) /\ \A j \in 0..(k-1) : isfinite(a[j])
    ELSE Len0(a)

\* np.sum(np.isfinite(a))
CountFinite(a) == Cardinality({k \in DOMAIN a : isfinite(a[k])})

\* The equation of state, a pure callable selected by name: "linear" is
\* density = t - s; "thermobaric" depends on pressure too.
EosNames == {"linear", "thermobaric"}
eos_apply(eos, s, t, p) ==
    IF isnan(s) \/ isnan(t) \/ isnan(p) THEN NaN
    ELSE IF eos = "linear" THEN t - s
    ELSE 8 * s - t * (8 + p)

\* The dual-variable interpolator (make_interpolator(interp, 0, "1", True)),
\* linear: both dependent variables at one target; NaN, NaN outside the
\* coordinate array's domain; exact at a node.
interp_apply(interp_fn, p, P, S, T) ==
    LET n == Len0(P) IN
    IF n = 0 \/ isnan(p) THEN <<NaN, NaN>>
    ELSE IF \E k \in DOMAIN P : isnan(P[k]) THEN <<NaN, NaN>>
    ELSE IF p < P[0] \/ p > P[n-1] THEN <<NaN, NaN>>
    ELSE LET k == CHOOSE i \in 0..(n-1) : P[i] <= p /\ (i = n-1 \/ p < P[i+1])
             lin(A) == IF p = P[k] THEN A[k]
                       ELSE IF isnan(A[k]) \/ isnan(A[k+1]) THEN NaN
                       ELSE A[k] + ((A[k+1] - A[k]) * (p - P[k])) \div (P[k+1] - P[k])
         IN <<lin(S), lin(T)>>

\* ------------------------------------------------------------ _func
\* args = (sB, tB, pB, S, T, P, eos, interp_fn) is a record here.
_func(p, sB, tB, pB, S, T, P, eos, interp_fn) ==
    LET st == interp_apply(interp_fn, p, P, S, T)
        p_avg == IF isnan(pB) \/ isnan(p) THEN NaN ELSE (pB + p) \div 2
    IN Sub(eos_apply(eos, sB, tB, p_avg), eos_apply(eos, st[1], st[2], p_avg))

F(p, args) ==
    _func(p, args.sB, args.tB, args.pB, args.S, args.T, args.P, args.eos, args.interp_fn)

\* ------------------------------------------------------------ fzero
\* fzero.guess_to_bounds: search for a sign change, expanding outward from
\* the guess x, clamped to [lb, ub]; (NaN, NaN) when there is none.  The
\* steps double, starting from one grid step (2).
RECURSIVE gtb_loop(_, _, _, _, _, _, _, _, _, _)
gtb_loop(x, lb, ub, a, b, dxm, dxp, fapos, fbpos, args) ==
    LET moveA == a > lb
        dxm1 == IF moveA THEN 2 * dxm ELSE dxm
        a1 == IF moveA THEN Max(x - dxm1, lb) ELSE a
        fapos1 == IF moveA THEN Pos(F(a1, args)) ELSE fapos
    IN
    IF moveA /\ fapos1 # fbpos THEN <<a1, b>>
    ELSE IF ~moveA /\ b = ub THEN (IF fapos # fbpos THEN <<a, b>> ELSE <<NaN, NaN>>)
    ELSE
      LET moveB == b < ub
          dxp1 == IF moveB THEN 2 * dxp ELSE dxp
          b1 == IF moveB THEN Min(x + dxp1, ub) ELSE b
          fbpos1 == IF moveB THEN Pos(F(b1, args)) ELSE fbpos
      IN
      IF moveB /\ fapos1 # fbpos1 THEN <<a1, b1>>
      ELSE IF ~moveB /\ a1 = lb THEN (IF fapos1 # fbpos1 THEN <<a1, b1>> ELSE <<NaN, NaN>>)
      ELSE gtb_loop(x, lb, ub, a1, b1, dxm1, dxp1, fapos1, fbpos1, args)

\* mutant: when the search meets no sign change the whole domain is returned
\* as the bracket, in place of the non-finite pair
guess_to_bounds_nosentinel(x0, lb, ub, args) ==
    LET x == Min(Max(x0, lb), ub)
        dxp == IF ub > x THEN 1 ELSE 0
        dxm == IF x > lb THEN 1 ELSE 0
        fapos == Pos(F(x, args))
        r == gtb_loop(x, lb, ub, x, x, dxm, dxp, fapos, fapos, args)
    IN IF isnan(r[1]) THEN <<lb, ub>> ELSE r

guess_to_bounds(x0, lb, ub, args) ==
    LET x == Min(Max(x0, lb), ub)
        dxp == IF ub > x THEN 1 ELSE 0
        dxm == IF x > lb THEN 1 ELSE 0
        fapos == Pos(F(x, args))
    IN gtb_loop(x, lb, ub, x, x, dxm, dxp, fapos, fapos, args)

\* fzero.brent: given a bracket with a sign change, a pressure within tol of a
\* sign change of f.  On the grid the method is its bisection fallback: halve
\* the bracket until it is no wider than tol, return the better endpoint.
RECURSIVE brent_loop(_, _, _, _, _)
brent_loop(a, b, fapos, tol, args) ==
    IF isnan(a) \/ isnan(b) THEN NaN
    ELSE IF b - a <= Max(tol, 2)
    THEN LET fa == F(a, args)
             fb == F(b, args)
         IN IF isnan(fb) THEN a
            ELSE IF isnan(fa) THEN b
            ELSE IF Abs(fa) <= Abs(fb) THEN a ELSE b
    ELSE LET m == a + 2 * ((b - a) \div 4)
             fm == F(m, args)
         IN IF fm = 0 THEN m
            ELSE IF Pos(fm) = fapos THEN brent_loop(m, b, fapos, tol, args)
            ELSE brent_loop(a, m, fapos, tol, args)

brent(lb, ub, tol, args) ==
    IF isnan(lb) \/ isnan(ub) THEN NaN
    ELSE brent_loop(lb, ub, Pos(F(lb, args)), tol, args)

\* ------------------------------------------------------------ connector
\* mutant: the guard off by one
HasData_offbyone(n_good) == n_good > 0

\* line 159: if n_good > 1
HasData(n_good) == n_good > 1

\* mutant: the bracket is not checked
BracketFound_unchecked(lb) == TRUE

\* line 166: if np.isfinite(lb)
BracketFound(lb) == isfinite(lb)

\* mutant: the pressure is left at a number
NoSignChangeResult_number == <<NaN, NaN, 0>>

\* line 175: s, t, p = np.nan, np.nan, np.nan (no sign change)
NoSignChangeResult == <<NaN, NaN, NaN>>

\* line 178: s, t, p = np.nan, np.nan, np.nan (n_good <= 1)
NoDataResult == <<NaN, NaN, NaN>>

MkArgs(sB, tB, pB, S, T, P, eos, interp_fn) ==
    [sB |-> sB, tB |-> tB, pB |-> pB, S |-> S, T |-> T, P |-> P,
     eos |-> eos, interp_fn |-> interp_fn]

\* _ntp_bottle_to_cast as a function of its ten parameters: <<s, t, p>>.
_ntp_bottle_to_cast(sB, tB, pB, S, T, P, n_good, tol_p, eos, interp_fn) ==
    IF HasData(n_good)
    THEN LET args == MkArgs(sB, tB, pB, S, T, P, eos, interp_fn)
             bnd == guess_to_bounds(pB, P[0], P[n_good - 1], args)
         IN IF BracketFound(bnd[1])
            THEN LET p == brent(bnd[1], bnd[2], tol_p, args)
                     st == interp_apply(interp_fn, p, P, S, T)
                 IN <<st[1], st[2], p>>
            ELSE NoSignChangeResult
    ELSE NoDataResult

\* ------------------------------------------------------------ inputs
Idx == 0..(NK - 1)
PGrid(top, gap) == [k \in Idx |-> top + gap * k]
Profile(top, slope) == [k \in Idx |-> top + slope * k]
\* the first n samples valid, the rest missing (below the sea floor)
Trail(A, n) == [k \in DOMAIN A |-> IF k < n THEN A[k] ELSE NaN]
\* one missing sample inside otherwise valid data
Hole(A, h) == [k \in DOMAIN A |-> IF k = h THEN NaN ELSE A[k]]

Tops == {v \in 0..MaxTop : v % 2 = 0}
PGrids == {PGrid(0, 2), PGrid(0, 4), PGrid(2, 4)}
SProfiles == {Profile(top, sl) : top \in Tops, sl \in {0, 2}}
TProfiles == {Profile(top, sl) : top \in Tops, sl \in {-2, 2}}
Cast(S, T, P) == [S |-> S, T |-> T, P |-> P]

\* casts handed to the connector: a valid prefix of any length, P on its grid
ConnCasts ==
    {Cast(Trail(S, n), Trail(T, n), P) :
        S \in SProfiles, T \in TProfiles, P \in PGrids, n \in 0..NK}
BottleS == {0, 2, 4}
BottleT == {-2, 0, 2}
BottleP == {p \in 0..(4 * NK) : p % 2 = 0}
Tols == {2, 4}

\* casts of a section handed to the driver
GoodCast == Cast(Profile(0, 0), Profile(2, -2), PGrid(0, 4))
WarmCast == Cast(Profile(0, 0), Profile(8, -2), PGrid(0, 4))
ShortCast == Cast(Trail(Profile(0, 0), 1), Trail(Profile(2, -2), 1), PGrid(0, 4))
HoledCast == Cast(Hole(Profile(0, 0), 1), Hole(Profile(2, -2), 1), PGrid(0, 4))
DrvCasts == {GoodCast, WarmCast, ShortCast, HoledCast}
Sections == UNION {[0..(nc - 1) -> DrvCasts] : nc \in 1..MaxCasts}
StartP == {0, 2, 4, 4 * NK}
\* s0=None, t0=None: the optional bottle is absent
None == -8888
Start0 == {<<None, None>>, <<4, 2>>}

\* ------------------------------------------------------------ state
VARIABLES conn, traj, calls
vars == <<conn, traj, calls>>

ConnIdle == [pc |-> "idle"]
TrajIdle == [pc |-> "idle"]

\* a caller is about to run ntp_bottle_to_cast (n_good not yet computed) or
\* _ntp_bottle_to_cast with a valid length of its own
InitConn ==
    /\ \E cast \in ConnCasts, sB \in BottleS, tB \in BottleT, pB \in BottleP,
          tol \in Tols, e \in EosNames :
         \E entry \in {"public", "fast"} :
           \E ng \in (IF entry = "public" THEN {NaN} ELSE 0..NK) :
             /\ entry = "fast" => find_first_nan(cast.S) = NK
             /\ conn = [pc |-> entry, entry |-> entry, sB |-> sB, tB |-> tB, pB |-> pB,
                        S |-> cast.S, T |-> cast.T, P |-> cast.P,
                        n_good |-> ng, tol_p |-> tol, eos |-> e,
                        interp_fn |-> "linear",
                        lb |-> NaN, ub |-> NaN, s |-> NaN, t |-> NaN, p |-> NaN]
    /\ traj = TrajIdle
    /\ calls = <<>>

InitTraj ==
    /\ \E sec \in Sections, p0 \in StartP, b0 \in Start0, e \in EosNames :
         traj = [pc |-> "start",
                 S |-> [c \in DOMAIN sec |-> sec[c].S],
                 T |-> [c \in DOMAIN sec |-> sec[c].T],
                 P |-> [c \in DOMAIN sec |-> sec[c].P],
                 p0 |-> p0, s0 |-> b0[1], t0 |-> b0[2],
                 tol_p |-> 2, eos |-> e, interp |-> "linear",
                 nc |-> Len0(sec),
                 s |-> [c \in DOMAIN sec |-> NaN],
                 t |-> [c \in DOMAIN sec |-> NaN],
                 p |-> [c \in DOMAIN sec |-> NaN],
                 c |-> 0, K |-> NaN, err |-> "none"]
    /\ conn = ConnIdle
    /\ calls = <<>>

Init == InitConn \/ InitTraj

\* ------------------------------------------------------------ ntp_bottle_to_cast
\* lines 108-112: n_good = find_first_nan(S), then the fast version
ntp_bottle_to_cast ==
    /\ conn.pc = "public"
    /\ conn' = [conn EXCEPT !.n_good = find_first_nan(conn.S), !.pc = "fast"]
    /\ UNCHANGED <<traj, calls>>

ConnArgs == MkArgs(conn.sB, conn.tB, conn.pB, conn.S, conn.T, conn.P,
                   conn.eos, conn.interp_fn)

\* lines 159-164: n_good > 1, run the bracketing search
Conn_Bracket ==
    /\ conn.pc = "fast"
    /\ HasData(conn.n_good)
    /\ LET bnd == guess_to_bounds(conn.pB, conn.P[0], conn.P[conn.n_good - 1], ConnArgs)
       IN conn' = [conn EXCEPT !.lb = bnd[1], !.ub = bnd[2], !.pc = "bracketed"]
    /\ calls' = Append(calls, "guess_to_bounds")
    /\ UNCHANGED traj

\* lines 177-180: n_good <= 1, return missing
Conn_NoData ==
    /\ conn.pc = "fast"
    /\ ~HasData(conn.n_good)
    /\ conn' = [conn EXCEPT !.s = NoDataResult[1], !.t = NoDataResult[2],
                            !.p = NoDataResult[3], !.pc = "done"]
    /\ UNCHANGED <<traj, calls>>

\* lines 166-169: a sign change was found, run the root finder
Conn_Root ==
    /\ conn.pc = "bracketed"
    /\ BracketFound(conn.lb)
    /\ conn' = [conn EXCEPT !.p = brent(conn.lb, conn.ub, conn.tol_p, ConnArgs),
                            !.pc = "rooted"]
    /\ calls' = Append(calls, "brent")
    /\ UNCHANGED traj

\* lines 174-175, 180: no sign change, return missing
Conn_NoSignChange ==
    /\ conn.pc = "bracketed"
    /\ ~BracketFound(conn.lb)
    /\ conn' = [conn EXCEPT !.s = NoSignChangeResult[1], !.t = NoSignChangeResult[2],
                            !.p = NoSignChangeResult[3], !.pc = "done"]
    /\ UNCHANGED <<traj, calls>>

\* lines 172, 180: interpolate S and T at p, return
Conn_Interp ==
    /\ conn.pc = "rooted"
    /\ LET st == interp_apply(conn.interp_fn, conn.p, conn.P, conn.S, conn.T)
       IN conn' = [conn EXCEPT !.s = st[1], !.t = st[2], !.pc = "done"]
    /\ calls' = Append(calls, "interp_fn")
    /\ UNCHANGED traj

\* ------------------------------------------------------------ neutral_trajectory
\* line 116: the connector's parameters, in order
Params == <<"sB", "tB", "pB", "S", "T", "P", "n_good", "tol_p", "eos", "interp_fn">>

\* lines 293-295: the argument expressions of the driver's call, in order
CallArgs == <<"s[c-1]", "t[c-1]", "p[c-1]", "Sc", "Tc", "Pc", "Sc", "Tc",
              "K", "eos", "interp", "tol_p">>

\* the value of an argument expression at iteration c
ArgValue(a, c, K) ==
    CASE a = "s[c-1]" -> traj.s[c - 1]
      [] a = "t[c-1]" -> traj.t[c - 1]
      [] a = "p[c-1]" -> traj.p[c - 1]
      [] a = "Sc" -> traj.S[c]
      [] a = "Tc" -> traj.T[c]
      [] a = "Pc" -> traj.P[c]
      [] a = "K" -> K
      [] a = "eos" -> traj.eos
      [] a = "interp" -> traj.interp
      [] a = "tol_p" -> traj.tol_p

\* A positional call binds argument i to parameter i and raises TypeError
\* when the counts differ.
CallBinds(args) == Len(args) = Len(Params)

\* lines 266-282: allocate s, t, p; evaluate S and T on the first cast at p0
Traj_Start ==
    /\ traj.pc = "start"
    /\ LET st == interp_apply(traj.interp, traj.p0, traj.P[0], traj.S[0], traj.T[0])
       IN traj' = [traj EXCEPT !.s = [c \in 0..(traj.nc - 1) |-> IF c = 0 THEN st[1] ELSE NaN],
                               !.t = [c \in 0..(traj.nc - 1) |-> IF c = 0 THEN st[2] ELSE NaN],
                               !.p = [c \in 0..(traj.nc - 1) |-> IF c = 0 THEN traj.p0 ELSE NaN],
                               !.c = 1, !.pc = "loop"]
    /\ UNCHANGED <<conn, calls>>

\* lines 285-299: one iteration of the loop over the remaining casts
Traj_Step ==
    /\ traj.pc = "loop"
    /\ traj.c < traj.nc
    /\ LET c == traj.c
           K == CountFinite(traj.S[c])
       IN IF ~CallBinds(CallArgs)
          THEN traj' = [traj EXCEPT !.K = K, !.pc = "raised", !.err = "TypeError"]
          ELSE \E B \in {[i \in 1..Len(Params) |-> ArgValue(CallArgs[i], c, K)]} :
               \E r \in {_ntp_bottle_to_cast(B[1], B[2], B[3], B[4], B[5], B[6],
                                             B[7], B[8], B[9], B[10])} :
                 traj' = [traj EXCEPT !.K = K,
                                      !.s[c] = r[1], !.t[c] = r[2], !.p[c] = r[3],
                                      !.c = IF isnan(r[3]) THEN c ELSE c + 1,
                                      !.pc = IF isnan(r[3]) THEN "returned" ELSE "loop"]
    /\ calls' = Append(calls, "_ntp_bottle_to_cast")
    /\ UNCHANGED conn

\* line 301: the loop is exhausted, return s, t, p
Traj_Return ==
    /\ traj.pc = "loop"
    /\ traj.c >= traj.nc
    /\ traj' = [traj EXCEPT !.pc = "returned"]
    /\ UNCHANGED <<conn, calls>>

\* ------------------------------------------------------------ claims
ConnRunning == conn.pc \in {"fast", "bracketed", "rooted", "done"}
AllNaN(s, t, p) == isnan(s) /\ isnan(t) /\ isnan(p)
\* grid pressures of the connector's cast domain [P[0], P[n_good-1]]
ConnDomain ==
    {q \in conn.P[0]..conn.P[conn.n_good - 1] : q % 2 = 0}
SameSign(x, y) == (x > 0 /\ y > 0) \/ (x < 0 /\ y < 0)

\* C5: for a cast whose valid length n_good is 0 or 1 the connector, entered
\* directly or through ntp_bottle_to_cast (which computes n_good with
\* find_first_nan), returns s, t, p all NaN whatever the bottle, and invokes
\* neither the bracketing search, nor the root finder, nor the interpolator.
C5_NoDataIsMissing ==
    /\ (ConnRunning /\ conn.entry = "public") => conn.n_good = find_first_nan(conn.S)
    /\ (ConnRunning /\ conn.n_good <= 1) =>
          /\ conn.pc \in {"fast", "done"}
          /\ calls = <<>>
          /\ conn.pc = "done" => AllNaN(conn.s, conn.t, conn.p)

\* a one-sample cast met by the bottle that equals its only sample
C5_Witness ==
    /\ conn.pc = "done"
    /\ conn.entry = "public"
    /\ conn.n_good = 1
    /\ conn.sB = conn.S[0] /\ conn.tB = conn.T[0] /\ conn.pB = conn.P[0]

\* C6: with n_good > 1, a non-finite bracket from the bracketing search makes
\* the connector return s, t, p all NaN, the very result of the n_good <= 1
\* case, after the bracketing search alone has run.
C6_NoSignChangeIsMissing ==
    (conn.pc = "done" /\ conn.n_good > 1 /\ ~isfinite(conn.lb)) =>
        /\ AllNaN(conn.s, conn.t, conn.p)
        /\ <<conn.s, conn.t, conn.p>> = NoDataResult
        /\ calls = <<"guess_to_bounds">>

\* a full cast on which the objective is of one sign throughout
C6_Witness ==
    /\ conn.pc = "done"
    /\ conn.n_good = NK
    /\ isnan(conn.lb)
    /\ \A q \in ConnDomain : F(q, ConnArgs) < 0

\* the connector's callees, in the order of lines 164, 169, 172
CallOrder == <<"guess_to_bounds", "brent", "interp_fn">>
\* the objective at the two bounds of the bracket the connector holds
FLb == F(conn.lb, ConnArgs)
FUb == F(conn.ub, ConnArgs)
\* both bounds finite and inside the cast's domain [P[0], P[n_good-1]]
FiniteBracket ==
    /\ isfinite(conn.lb) /\ isfinite(conn.ub)
    /\ conn.P[0] <= conn.lb /\ conn.lb <= conn.ub /\ conn.ub <= conn.P[conn.n_good - 1]
    /\ isfinite(FLb) /\ isfinite(FUb)
\* the objective is strictly positive at one bound and strictly negative at
\* the other
OppositeSign(x, y) == (x > 0 /\ y < 0) \/ (x < 0 /\ y > 0)
\* a bracket as the claim words it: finite bounds, opposite signs
StrictBracket == FiniteBracket /\ OppositeSign(FLb, FUb)
\* a bracket as the bracketing search establishes it: finite bounds, the
\* objective positive at exactly one of them, hence never of the same sign
ValidBracket ==
    /\ FiniteBracket
    /\ Pos(FLb) # Pos(FUb)
    /\ ~SameSign(FLb, FUb)
\* the order and multiplicity of the connector's calls (lines 164-172)
CallsInOrder ==
    /\ Len(calls) <= 3
    /\ calls = SubSeq(CallOrder, 1, Len(calls))
    /\ Len(calls) = 2 <=> conn.pc = "rooted"
    /\ Len(calls) = 3 => (conn.pc = "done" /\ isfinite(conn.p))

BottleIsSample(k) ==
    /\ conn.sB = conn.S[k] /\ conn.tB = conn.T[k] /\ conn.pB = conn.P[k]
    /\ \A q \in ConnDomain : q # conn.P[k] => F(q, ConnArgs) # 0
\* C8: a bottle equal to sample k of a cast with n_good > 1, on which the
\* objective is zero at P[k] only, is connected to a point with finite
\* pressure within tol_p of P[k]; and _func at p = pB = P[k] is exactly zero.
C8_SelfConsistency ==
    (conn.pc = "done" /\ conn.n_good > 1) =>
        \A k \in 0..(conn.n_good - 1) :
            BottleIsSample(k) =>
                /\ F(conn.P[k], ConnArgs) = 0
                /\ isfinite(conn.p)
                /\ Abs(conn.p - conn.P[k]) <= conn.tol_p

\* ------------------------------------------------------------ driver claims
TrajFinished == traj.pc \in {"returned", "raised"}
TrajStarted == traj.pc \in {"loop", "returned", "raised"}
Casts == 0..(traj.nc - 1)
PointAllNaN(c) == AllNaN(traj.s[c], traj.t[c], traj.p[c])

\* The trajectory the section defines: point 0 as recorded, point c the
\* connection from point c-1 to cast c with the connector's parameters bound
\* by role; nothing is connected past a missing point.
RECURSIVE Chain(_)
Chain(c) ==
    IF c = 0 THEN <<traj.s[0], traj.t[0], traj.p[0]>>
    ELSE LET prev == Chain(c - 1)
         IN IF isnan(prev[3]) THEN <<NaN, NaN, NaN>>
            ELSE _ntp_bottle_to_cast(prev[1], prev[2], prev[3],
                                     traj.S[c], traj.T[c], traj.P[c],
                                     find_first_nan(traj.S[c]),
                                     traj.tol_p, traj.eos, traj.interp)
\* cast k is the first whose connection is missing
FirstMissingAt(k) ==
    /\ k \in 1..(traj.nc - 1)
    /\ isnan(Chain(k)[3])
    /\ isfinite(Chain(k - 1)[3])

\* C1: when the connection to cast k is the first missing one, the driver
\* returns having invoked the connector for casts 1..k only, and positions
\* k..nc-1 of s, t and p are all NaN.
C1_StopsAtFirstMissing ==
    TrajFinished =>
        \A k \in 1..(traj.nc - 1) :
            FirstMissingAt(k) =>
                /\ traj.pc = "returned"
                /\ Len(calls) = k
                /\ \A j \in k..(traj.nc - 1) : PointAllNaN(j)

\* C2: with s0 and t0 given, point 0 is (s0, t0, p0); without them it is the
\* first cast interpolated at p0.
C2_ExplicitBottleIsPointZero ==
    TrajStarted =>
        IF traj.s0 # None /\ traj.t0 # None
        THEN <<traj.s[0], traj.t[0], traj.p[0]>> = <<traj.s0, traj.t0, traj.p0>>
        ELSE /\ <<traj.s[0], traj.t[0]>> =
                  interp_apply(traj.interp, traj.p0, traj.P[0], traj.S[0], traj.T[0])
             /\ traj.p[0] = traj.p0

\* the argument each parameter of the connector is meant to receive
Intended ==
    [sB |-> "s[c-1]", tB |-> "t[c-1]", pB |-> "p[c-1]",
     S |-> "Sc", T |-> "Tc", P |-> "Pc",
     n_good |-> "K", tol_p |-> "tol_p", eos |-> "eos", interp_fn |-> "interp"]
\* C3: every invocation of the connector by the driver binds the preceding
\* point, column c, K, tol_p, eos and interp to the parameters of the same
\* role, and completes.
C3_ConnectorBoundByRole ==
    (TrajStarted /\ Len(calls) >= 1) =>
        /\ Len(CallArgs) = Len(Params)
        /\ \A i \in 1..Len(Params) : i <= Len(CallArgs) /\ CallArgs[i] = Intended[Params[i]]
        /\ traj.err = "none"
        /\ traj.pc # "raised"

\* C4: when cast k of nc is the first with no connection, the output has
\* exactly k valid entries, at 0..k-1, and nc-k missing positions (5 casts,
\* k = 3: entries 0..2 valid, 3 and 4 missing).
C4_TruncatedAtFirstMissing ==
    TrajFinished =>
        \A k \in 1..(traj.nc - 1) :
            FirstMissingAt(k) =>
                /\ traj.pc = "returned"
                /\ {c \in Casts : isfinite(traj.p[c])} = 0..(k - 1)
                /\ Cardinality({c \in Casts : PointAllNaN(c)}) = traj.nc - k

\* C7: every step of a returned trajectory, step 0 included, is entirely
\* missing, or has its pressure within [P[0], P[n_good-1]] of its cast with
\* s and t the values interpolated there.
C7_PointInRangeOrMissing ==
    traj.pc = "returned" =>
        \A c \in Casts :
            \/ PointAllNaN(c)
            \/ LET n_good == find_first_nan(traj.S[c])
               IN /\ n_good >= 1
                  /\ isfinite(traj.p[c]) /\ isfinite(traj.s[c]) /\ isfinite(traj.t[c])
                  /\ traj.P[c][0] <= traj.p[c] /\ traj.p[c] <= traj.P[c][n_good - 1]
                  /\ <<traj.s[c], traj.t[c]>> =
                       interp_apply(traj.interp, traj.p[c], traj.P[c], traj.S[c], traj.T[c])

\* C10: the valid length K the driver computes for cast c is the length of
\* the leading non-missing prefix of S[:, c], find_first_nan(S[:, c]), and
\* P[K-1] is not missing.
C10_ValidLengthIsPrefixLength ==
    (TrajStarted /\ Len(calls) >= 1) =>
        /\ traj.K = find_first_nan(traj.S[traj.c])
        /\ traj.K >= 1 => isfinite(traj.P[traj.c][traj.K - 1])

Next ==
    \/ ntp_bottle_to_cast
    \/ Conn_Bracket
    \/ Conn_NoData
    \/ Conn_Root
    \/ Conn_NoSignChange
    \/ Conn_Interp
    \/ Traj_Start
    \/ Traj_Step
    \/ Traj_Return

Spec == Init /\ [][Next]_vars
====
